---- MODULE Spec2Model ----
(***************************************************************************)
(* A model of the e-graph of src/e_graph.py and of the disjoint-set of     *)
(* src/union_find.py: the term store (add_node, canonicalize), merge, and  *)
(* the rebuild/repair worklist loop, with the KeyError each of them can    *)
(* raise.                                                                  *)
(***************************************************************************)
EXTENDS Integers, Sequences, FiniteSets, TLC

VARIABLES parent,    \* UnionFind.parent : id -> parent id
          classes,   \* E_GRAPH.classes  : id -> E_CLASS
          hashcons,  \* E_GRAPH.hashcons : E_NODE -> id
          next_id,   \* E_GRAPH.next_id
          worklist,  \* E_GRAPH.worklist
          raised,    \* the last call ended in an uncaught KeyError
          last,      \* the last call made: its name and what add_node returned
          created    \* id -> the canonical node add_node created the class with

vars == <<parent, classes, hashcons, next_id, worklist, raised, last, created>>

(* ---------------------------- bounds ----------------------------------- *)
\* The largest id add_node may mint in the model.
MaxId == 3

\* Symbols of the nodes the callers add: two leaves and a unary operator.
Leaves == {"a", "b"}
Unary == {"f"}

\* The value a call without a result returns (Python's None).
None == 0

(* ---------------------------- E_NODE ----------------------------------- *)
E_NODE(value, children_ids) == [value |-> value, children |-> children_ids]

\* The nodes a caller can build over the class ids in ids.
NodesOver(ids) ==
    {E_NODE(s, <<>>) : s \in Leaves}
      \cup {E_NODE(s, <<i>>) : s \in Unary, i \in ids}

E_CLASS(id, nodes) == [id |-> id, nodes |-> nodes, parents |-> {}]

\* f with f[k] set to v, k added to the domain when absent (dict assignment).
Put(f, k, v) == [x \in (DOMAIN f) \cup {k} |-> IF x = k THEN v ELSE f[x]]

\* f without the key k (del f[k]).
Del(f, k) == [x \in (DOMAIN f) \ {k} |-> f[x]]

(* ---------------------------- UnionFind -------------------------------- *)
\* Line 12 of find: parent[x] is set to the root r.root that the recursive
\* call found.
compress(r, x) == [parent |-> [r.parent EXCEPT ![x] = r.root], root |-> r.root]

\* find(x): registers an unseen x as its own root, else follows the parent
\* links to the root and compresses the path.  Returns the new parent map
\* and the root.
RECURSIVE find(_, _)
find(p, x) ==
    LET p1 == IF x \notin DOMAIN p THEN Put(p, x, x) ELSE p
    IN  IF p1[x] # x
        THEN compress(find(p1, p1[x]), x)
        ELSE [parent |-> p1, root |-> p1[x]]

\* union that links y under x without finding their roots.
union_unrooted(p, x, y) ==
    LET fx == find(p, x)
        fy == find(fx.parent, y)
    IN  IF x # y THEN [fy.parent EXCEPT ![y] = x] ELSE fy.parent

\* union with the link reversed: x_root goes under y_root.
union_reversed(p, x, y) ==
    LET fx == find(p, x)
        fy == find(fx.parent, y)
    IN  IF fx.root # fy.root
        THEN [fy.parent EXCEPT ![fx.root] = fy.root]
        ELSE fy.parent

union(p, x, y) ==
    LET fx == find(p, x)
        fy == find(fx.parent, y)
    IN  IF fx.root # fy.root
        THEN [fy.parent EXCEPT ![fy.root] = fx.root]
        ELSE fy.parent

\* The representative of x, without the side effect of find.
RECURSIVE Rep(_, _)
Rep(p, x) == IF x \notin DOMAIN p THEN x ELSE IF p[x] = x THEN x ELSE Rep(p, p[x])

(* ---------------------------- E_GRAPH ---------------------------------- *)
\* The graph as one value: the fields of E_GRAPH and whether a call raised.
G == [parent |-> parent, classes |-> classes, hashcons |-> hashcons,
      next_id |-> next_id, worklist |-> worklist, raised |-> FALSE]

E_GRAPH_init == [parent |-> <<>>, classes |-> <<>>, hashcons |-> <<>>,
                 next_id |-> 0, worklist |-> {}, raised |-> FALSE]

\* canonicalize(enode): find of each child, left to right.
RECURSIVE canonChildren(_, _, _)
canonChildren(p, cs, i) ==
    IF i > Len(cs) THEN [parent |-> p, children |-> <<>>]
    ELSE LET f == find(p, cs[i])
             rest == canonChildren(f.parent, cs, i + 1)
         IN  [parent |-> rest.parent, children |-> <<f.root>> \o rest.children]

canonicalize(p, enode) ==
    LET c == canonChildren(p, enode.children, 1)
    IN  [parent |-> c.parent, node |-> E_NODE(enode.value, c.children)]

\* Step 4 of add_node: record enode as a parent of each canonical child;
\* classes[c] of a child without a class raises KeyError.
RECURSIVE addParents(_, _, _, _)
addParents(g, cs, i, enode) ==
    IF i > Len(cs) THEN g
    ELSE IF cs[i] \notin DOMAIN g.classes THEN [g EXCEPT !.raised = TRUE]
    ELSE addParents(
            [g EXCEPT !.classes[cs[i]].parents = @ \cup {enode}], cs, i + 1, enode)

\* add_node without line 99: the new class is not entered in hashcons.
add_node_unrecorded(g, enode) ==
    LET c == canonicalize(g.parent, enode)
        g1 == [g EXCEPT !.parent = c.parent]
    IN  IF c.node \in DOMAIN g.hashcons
        THEN [g |-> g1, ret |-> g.hashcons[c.node], hit |-> TRUE]
        ELSE LET new_id == g.next_id + 1
                 g2 == [g1 EXCEPT !.next_id = new_id,
                                  !.parent = Put(c.parent, new_id, new_id),
                                  !.classes = Put(g.classes, new_id,
                                                  E_CLASS(new_id, {c.node}))]
                 g3 == addParents(g2, c.node.children, 1, enode)
             IN  [g |-> g3, ret |-> IF g3.raised THEN None ELSE new_id, hit |-> FALSE]

\* add_node whose get_new_id returns next_id + 1 without storing it.
add_node_stale_counter(g, enode) ==
    LET c == canonicalize(g.parent, enode)
        g1 == [g EXCEPT !.parent = c.parent]
    IN  IF c.node \in DOMAIN g.hashcons
        THEN [g |-> g1, ret |-> g.hashcons[c.node], hit |-> TRUE]
        ELSE LET new_id == g.next_id + 1
                 g2 == [g1 EXCEPT !.parent = Put(c.parent, new_id, new_id),
                                  !.classes = Put(g.classes, new_id,
                                                  E_CLASS(new_id, {c.node})),
                                  !.hashcons = Put(g.hashcons, c.node, new_id)]
                 g3 == addParents(g2, c.node.children, 1, enode)
             IN  [g |-> g3, ret |-> IF g3.raised THEN None ELSE new_id, hit |-> FALSE]

add_node(g, enode) ==
    LET c == canonicalize(g.parent, enode)
        g1 == [g EXCEPT !.parent = c.parent]
    IN  IF c.node \in DOMAIN g.hashcons
        THEN [g |-> g1, ret |-> g.hashcons[c.node], hit |-> TRUE]
        ELSE LET new_id == g.next_id + 1
                 g2 == [g1 EXCEPT !.next_id = new_id,
                                  !.parent = Put(c.parent, new_id, new_id),
                                  !.classes = Put(g.classes, new_id,
                                                  E_CLASS(new_id, {c.node})),
                                  !.hashcons = Put(g.hashcons, c.node, new_id)]
                 g3 == addParents(g2, c.node.children, 1, enode)
             IN  [g |-> g3, ret |-> IF g3.raised THEN None ELSE new_id, hit |-> FALSE]

\* get_eclass written with setdefault: an absent id gets a fresh class.
get_eclass_setdefault(g, id) ==
    IF id \in DOMAIN g.classes THEN [g |-> g, ret |-> <<g.classes[id]>>]
    ELSE [g |-> [g EXCEPT !.classes = Put(g.classes, id, E_CLASS(id, {}))],
          ret |-> <<E_CLASS(id, {})>>]

\* get_eclass(id): classes.get(id).  The result is <<class>>, or <<>> for
\* Python's None; the graph is returned as the call leaves it.
get_eclass(g, id) ==
    IF id \in DOMAIN g.classes THEN [g |-> g, ret |-> <<g.classes[id]>>]
    ELSE [g |-> g, ret |-> <<>>]

\* merge keeping only the nodes of the class at a_root.
merge_left_nodes(g, a, b) ==
    LET fa == find(g.parent, a)
        fb == find(fa.parent, b)
        a_root == fa.root
        b_root == fb.root
    IN  IF a_root = b_root THEN [g EXCEPT !.parent = fb.parent]
        ELSE LET p1 == union(fb.parent, a_root, b_root)
                 fm == find(p1, a_root)
                 merged_id == fm.root
                 g1 == [g EXCEPT !.parent = fm.parent]
             IN  IF a_root \notin DOMAIN g.classes \/ b_root \notin DOMAIN g.classes
                 THEN [g1 EXCEPT !.raised = TRUE]
                 ELSE [g1 EXCEPT
                         !.classes = Put(g.classes, merged_id,
                                         E_CLASS(merged_id, g.classes[a_root].nodes)),
                         !.worklist = @ \cup {merged_id}]

\* merge keeping only the nodes of the class at b_root.
merge_right_nodes(g, a, b) ==
    LET fa == find(g.parent, a)
        fb == find(fa.parent, b)
        a_root == fa.root
        b_root == fb.root
    IN  IF a_root = b_root THEN [g EXCEPT !.parent = fb.parent]
        ELSE LET p1 == union(fb.parent, a_root, b_root)
                 fm == find(p1, a_root)
                 merged_id == fm.root
                 g1 == [g EXCEPT !.parent = fm.parent]
             IN  IF a_root \notin DOMAIN g.classes \/ b_root \notin DOMAIN g.classes
                 THEN [g1 EXCEPT !.raised = TRUE]
                 ELSE [g1 EXCEPT
                         !.classes = Put(g.classes, merged_id,
                                         E_CLASS(merged_id, g.classes[b_root].nodes)),
                         !.worklist = @ \cup {merged_id}]

\* merge that schedules both former roots.
merge_schedules_both(g, a, b) ==
    LET fa == find(g.parent, a)
        fb == find(fa.parent, b)
        a_root == fa.root
        b_root == fb.root
    IN  IF a_root = b_root THEN [g EXCEPT !.parent = fb.parent]
        ELSE LET p1 == union(fb.parent, a_root, b_root)
                 fm == find(p1, a_root)
                 merged_id == fm.root
                 g1 == [g EXCEPT !.parent = fm.parent]
             IN  IF a_root \notin DOMAIN g.classes \/ b_root \notin DOMAIN g.classes
                 THEN [g1 EXCEPT !.raised = TRUE]
                 ELSE [g1 EXCEPT
                         !.classes = Put(g.classes, merged_id,
                                         E_CLASS(merged_id,
                                                 g.classes[a_root].nodes
                                                   \cup g.classes[b_root].nodes)),
                         !.worklist = @ \cup {a_root, b_root}]

\* merge without the early return of lines 116-117.
merge_no_return(g, a, b) ==
    LET fa == find(g.parent, a)
        fb == find(fa.parent, b)
        a_root == fa.root
        b_root == fb.root
        p1 == union(fb.parent, a_root, b_root)
        fm == find(p1, a_root)
        merged_id == fm.root
        g1 == [g EXCEPT !.parent = fm.parent]
    IN  IF a_root \notin DOMAIN g.classes \/ b_root \notin DOMAIN g.classes
        THEN [g1 EXCEPT !.raised = TRUE]
        ELSE [g1 EXCEPT
                !.classes = Put(g.classes, merged_id,
                                E_CLASS(merged_id,
                                        g.classes[a_root].nodes
                                          \cup g.classes[b_root].nodes)),
                !.worklist = @ \cup {merged_id}]

merge(g, a, b) ==
    LET fa == find(g.parent, a)
        fb == find(fa.parent, b)
        a_root == fa.root
        b_root == fb.root
    IN  IF a_root = b_root THEN [g EXCEPT !.parent = fb.parent]
        ELSE LET p1 == union(fb.parent, a_root, b_root)
                 fm == find(p1, a_root)
                 merged_id == fm.root
                 g1 == [g EXCEPT !.parent = fm.parent]
             IN  IF a_root \notin DOMAIN g.classes \/ b_root \notin DOMAIN g.classes
                 THEN [g1 EXCEPT !.raised = TRUE]
                 ELSE [g1 EXCEPT
                         !.classes = Put(g.classes, merged_id,
                                         E_CLASS(merged_id,
                                                 g.classes[a_root].nodes
                                                   \cup g.classes[b_root].nodes)),
                         !.worklist = @ \cup {merged_id}]

\* The orders in which a Python set with the elements of S can be iterated.
RECURSIVE Orders(_)
Orders(S) ==
    IF S = {} THEN {<<>>}
    ELSE UNION {{<<x>> \o o : o \in Orders(S \ {x})} : x \in S}

\* First loop of repair (lines 141-152): each recorded parent's hashcons
\* entry is removed under the recorded node and reinserted under the
\* canonicalized node; hashcons[enode] of an absent key raises KeyError.
RECURSIVE repairRekey(_, _, _)
repairRekey(g, order, i) ==
    IF i > Len(order) THEN g
    ELSE LET enode == order[i]
             c == canonicalize(g.parent, enode)
         IN  IF enode \notin DOMAIN g.hashcons
             THEN [g EXCEPT !.parent = c.parent, !.raised = TRUE]
             ELSE LET current_eclass == g.hashcons[enode]
                      f == find(c.parent, current_eclass)
                  IN  repairRekey(
                         [g EXCEPT !.parent = f.parent,
                                   !.hashcons = Put(Del(g.hashcons, enode),
                                                    c.node, f.root)],
                         order, i + 1)

\* Second loop of repair (lines 155-170): new_parents is read under the
\* recorded node key_original and written under the canonicalized node.
RECURSIVE repairDedup(_, _, _, _)
repairDedup(g, new_parents, order, i) ==
    IF i > Len(order) THEN [g |-> g, new_parents |-> new_parents]
    ELSE LET key_original == order[i]
             c == canonicalize(g.parent, key_original)
             enode == c.node
             g1 == [g EXCEPT !.parent = c.parent]
             fail == [g |-> [g1 EXCEPT !.raised = TRUE], new_parents |-> new_parents]
             g2 == IF enode \in DOMAIN new_parents
                   THEN IF key_original \notin DOMAIN new_parents
                             \/ enode \notin DOMAIN g1.hashcons
                        THEN [g1 EXCEPT !.raised = TRUE]
                        ELSE merge(g1, new_parents[key_original], g1.hashcons[enode])
                   ELSE g1
         IN  IF g2.raised THEN [g |-> g2, new_parents |-> new_parents]
             ELSE IF key_original \notin DOMAIN new_parents
             THEN [g |-> [g2 EXCEPT !.raised = TRUE], new_parents |-> new_parents]
             ELSE LET f == find(g2.parent, new_parents[key_original])
                  IN  repairDedup([g2 EXCEPT !.parent = f.parent],
                                  Put(new_parents, enode, f.root), order, i + 1)

\* repair(eclass), the parents of the class iterated in the given order.
repair(g, eclass, order) ==
    LET g1 == repairRekey(g, order, 1)
    IN  IF g1.raised THEN g1
        ELSE LET d == repairDedup(g1, <<>>, order, 1)
             IN  IF d.g.raised THEN d.g
                 ELSE [d.g EXCEPT !.classes[eclass].parents = DOMAIN d.new_parents]

\* The graphs repair(eclass) can end in, over the iteration orders.
repairOutcomes(g, eclass) ==
    IF eclass \notin DOMAIN g.classes THEN {[g EXCEPT !.raised = TRUE]}
    ELSE {repair(g, eclass, order) : order \in Orders(g.classes[eclass].parents)}

\* rebuild with "if" for "while": one id is popped and repaired.
rebuild_once(g) ==
    IF g.worklist = {} THEN {g}
    ELSE UNION {
           LET f == find(g.parent, eclass_id)
               g1 == [g EXCEPT !.worklist = @ \ {eclass_id}, !.parent = f.parent]
           IN  repairOutcomes(g1, f.root)
           : eclass_id \in g.worklist}

\* rebuild(): while the worklist is not empty, pop any id, find it, repair
\* it.  The graphs it can end in; one that raised keeps the rest of the
\* worklist.
RECURSIVE rebuild(_)
rebuild(g) ==
    IF g.worklist = {} THEN {g}
    ELSE UNION {
           LET f == find(g.parent, eclass_id)
               g1 == [g EXCEPT !.worklist = @ \ {eclass_id}, !.parent = f.parent]
           IN  UNION {IF o.raised THEN {o} ELSE rebuild(o)
                        : o \in repairOutcomes(g1, f.root)}
           : eclass_id \in g.worklist}

(* ---------------------------- the calls -------------------------------- *)
\* The ids add_node has minted so far.
Minted == 1..next_id

Set(g) ==
    /\ parent' = g.parent
    /\ classes' = g.classes
    /\ hashcons' = g.hashcons
    /\ next_id' = g.next_id
    /\ worklist' = g.worklist
    /\ raised' = g.raised

\* A call as last records it: ret is the id add_node returned, hit whether it
\* found the node in hashcons.
Call(op, ret, hit) == [op |-> op, ret |-> ret, hit |-> hit]

Init ==
    /\ parent = E_GRAPH_init.parent
    /\ classes = E_GRAPH_init.classes
    /\ hashcons = E_GRAPH_init.hashcons
    /\ next_id = E_GRAPH_init.next_id
    /\ worklist = E_GRAPH_init.worklist
    /\ raised = E_GRAPH_init.raised
    /\ last = Call("init", None, FALSE)
    /\ created = <<>>

\* A caller adds a node over minted ids.
AddNode ==
    /\ ~raised
    /\ \E enode \in NodesOver(Minted) :
         LET r == add_node(G, enode)
         IN  /\ r.g.next_id <= MaxId
             /\ Set(r.g)
             /\ last' = Call("add_node", r.ret, r.hit)
             /\ created' = IF r.hit THEN created
                           ELSE Put(created, r.g.next_id,
                                    canonicalize(parent, enode).node)

\* A caller merges two minted ids.
Merge ==
    /\ ~raised
    /\ \E a \in Minted, b \in Minted :
         /\ Set(merge(G, a, b))
         /\ last' = Call("merge", None, FALSE)
         /\ UNCHANGED created

\* A caller rebuilds.
Rebuild ==
    /\ ~raised
    /\ \E o \in rebuild(G) :
         /\ Set(o)
         /\ last' = Call("rebuild", None, FALSE)
         /\ UNCHANGED created

Next == AddNode \/ Merge \/ Rebuild

Spec == Init /\ [][Next]_vars

(* ------------------- calls with ids that were never minted ------------- *)
\* The largest id add_node may mint when callers also pass unminted ids.
MaxIdU == 2

\* The ids a caller can pass: the minted ones and those not minted yet; the
\* last one is never minted.
Ids == 1..(MaxIdU + 1)

\* A caller calls union_find.find(x).
Find ==
    /\ ~raised
    /\ \E x \in Ids :
         LET f == find(parent, x)
         IN  /\ Set([G EXCEPT !.parent = f.parent])
             /\ last' = Call("find", f.root, x \in DOMAIN parent)
             /\ UNCHANGED created

\* A caller calls get_eclass(id).
GetEclass ==
    /\ ~raised
    /\ \E id \in Ids :
         LET r == get_eclass(G, id)
         IN  /\ Set(r.g)
             /\ last' = Call("get_eclass",
                             IF r.ret = <<>> THEN None ELSE r.ret[1].id,
                             r.ret # <<>>)
             /\ UNCHANGED created

\* A caller adds a node over minted ids, up to MaxIdU classes.
AddNodeU ==
    /\ ~raised
    /\ \E enode \in NodesOver(Minted) :
         LET r == add_node(G, enode)
         IN  /\ r.g.next_id <= MaxIdU
             /\ Set(r.g)
             /\ last' = Call("add_node", r.ret, r.hit)
             /\ created' = IF r.hit THEN created
                           ELSE Put(created, r.g.next_id,
                                    canonicalize(parent, enode).node)

\* A caller adds a node with a child id that was never minted.
AddNodeUnknown ==
    /\ ~raised
    /\ \E enode \in NodesOver(Ids) \ NodesOver(Minted) :
         LET r == add_node(G, enode)
         IN  /\ r.g.next_id <= MaxIdU
             /\ Set(r.g)
             /\ last' = Call("add_node", r.ret, r.hit)
             /\ created' = IF r.hit THEN created
                           ELSE Put(created, r.g.next_id,
                                    canonicalize(parent, enode).node)

\* A caller merges two ids of which one was never minted.
MergeUnknown ==
    /\ ~raised
    /\ \E a \in Ids, b \in Ids :
         /\ (a \notin Minted \/ b \notin Minted)
         /\ Set(merge(G, a, b))
         /\ last' = Call("merge", None, FALSE)
         /\ UNCHANGED created

NextU ==
    AddNodeU \/ Merge \/ Rebuild \/ Find \/ GetEclass \/ AddNodeUnknown \/ MergeUnknown

SpecU == Init /\ [][NextU]_vars

(* ---------------------------- observers -------------------------------- *)
\* enode with each child replaced by its representative.
Canon(p, enode) ==
    E_NODE(enode.value, [k \in 1..Len(enode.children) |-> Rep(p, enode.children[k])])

\* The canonical class ids of a graph.
CanonicalIds(g) == {c \in DOMAIN g.classes : Rep(g.parent, c) = c}

\* Every node held by some class of the graph.
AllNodes(g) == UNION {g.classes[c].nodes : c \in DOMAIN g.classes}

\* The last call was a rebuild() that returned.
Completed == last.op = "rebuild" /\ ~raised

\* Two graphs with the same classes, hashcons, worklist, next_id and
\* representatives (the parent maps may differ by path compression).
Same(g, h) ==
    /\ g.classes = h.classes
    /\ g.hashcons = h.hashcons
    /\ g.worklist = h.worklist
    /\ g.next_id = h.next_id
    /\ g.raised = h.raised
    /\ \A x \in 1..MaxId : Rep(g.parent, x) = Rep(h.parent, x)

(* ---------------------------- claims ----------------------------------- *)
\* C1: congruence closure.  After a rebuild() that returned, two classes
\* created with nodes of the same symbol whose children are pairwise merged
\* have the same representative.
C1_CongruenceClosure ==
    Completed =>
      \A i \in DOMAIN created, j \in DOMAIN created :
        ( /\ created[i].value = created[j].value
          /\ Len(created[i].children) = Len(created[j].children)
          /\ \A k \in 1..Len(created[i].children) :
               Rep(parent, created[i].children[k]) = Rep(parent, created[j].children[k]) )
        => Rep(parent, i) = Rep(parent, j)

\* C2: every rebuild() returns normally and leaves the worklist empty.
C2_RebuildDrains ==
    last.op = "rebuild" => (~raised /\ worklist = {})

\* C3: dedup.  In every reachable state, add_node called twice in succession
\* with nodes equal after canonicalization returns the same id both times,
\* and the second call leaves the key set of classes and next_id unchanged.
C3_Dedup ==
    ~raised =>
      \A n1 \in NodesOver(Minted), n2 \in NodesOver(Minted) :
        Canon(parent, n1) = Canon(parent, n2) =>
          LET r1 == add_node(G, n1)
              r2 == add_node(r1.g, n2)
          IN  /\ ~r1.g.raised /\ ~r2.g.raised
              /\ r2.ret = r1.ret
              /\ DOMAIN r2.g.classes = DOMAIN r1.g.classes
              /\ r2.g.next_id = r1.g.next_id

\* C3 witness: an add_node found its node in hashcons after a merge left a
\* minted id that is not its own representative, so that two different nodes
\* canonicalize to the same node.
C3_Witness ==
    /\ last.op = "add_node" /\ last.hit
    /\ \E n1 \in NodesOver(Minted), n2 \in NodesOver(Minted) :
         n1 # n2 /\ Canon(parent, n1) = Canon(parent, n2)

\* C4: merge(a, b) of minted ids with different representatives gives a and
\* b the same representative, and the class stored at it holds exactly the
\* nodes of the two classes stored at the former roots.
C4_MergeUnion ==
    ~raised =>
      \A a \in Minted, b \in Minted :
        Rep(parent, a) # Rep(parent, b) =>
          LET m == merge(G, a, b)
              r == Rep(m.parent, a)
          IN  /\ ~m.raised
              /\ Rep(m.parent, b) = r
              /\ r \in DOMAIN m.classes
              /\ m.classes[r].nodes =
                   classes[Rep(parent, a)].nodes \cup classes[Rep(parent, b)].nodes

\* C4 witness (Scenario A): after a merge and a rebuild() that returned, one
\* canonical class holds a leaf and a node whose first child is that class.
C4_Witness ==
    /\ Completed
    /\ \E c \in CanonicalIds(G) :
         /\ \E n \in classes[c].nodes : n.children = <<>>
         /\ \E n \in classes[c].nodes :
              n.children # <<>> /\ Rep(parent, n.children[1]) = c

\* C5: parent soundness.  After a rebuild() that returned, the canonicalized
\* parents of every canonical class c are exactly the canonicalized nodes of
\* the graph with a child whose representative is c.
C5_ParentSoundness ==
    Completed =>
      \A c \in CanonicalIds(G) :
        {Canon(parent, n) : n \in classes[c].parents}
          = {Canon(parent, n) :
               n \in {m \in AllNodes(G) :
                        \E k \in 1..Len(m.children) : Rep(parent, m.children[k]) = c}}

\* C6: after a rebuild() that returned, every child id of every key of
\* hashcons is its own representative.
C6_CanonicalKeys ==
    Completed =>
      \A n \in DOMAIN hashcons :
        \A k \in 1..Len(n.children) : Rep(parent, n.children[k]) = n.children[k]

\* C7: hash-cons completeness.  After a rebuild() that returned, every node
\* of every canonical class c, canonicalized, is a key of hashcons mapped to c.
C7_HashconsComplete ==
    Completed =>
      \A c \in CanonicalIds(G) :
        \A n \in classes[c].nodes :
          /\ Canon(parent, n) \in DOMAIN hashcons
          /\ hashcons[Canon(parent, n)] = c

\* C8: the id add_node returns when it finds the node in hashcons is its own
\* representative.
C8_AddReturnsCanonical ==
    (last.op = "add_node" /\ last.hit) => Rep(parent, last.ret) = last.ret

\* C9: rebuild fixed point.  rebuild() with an empty worklist, and rebuild()
\* right after a rebuild() that returned, leave classes, hashcons, the
\* worklist, next_id and every representative as they were.
C9_RebuildFixedPoint ==
    (~raised /\ (worklist = {} \/ last.op = "rebuild")) =>
      \A o \in rebuild(G) : Same(o, G)

\* C9 witness: a rebuild() returned after merges had left ids that are not
\* their own representative.
C9_Witness ==
    /\ Completed
    /\ \E x \in Minted : Rep(parent, x) # x
    /\ \E c \in DOMAIN classes : Cardinality(classes[c].nodes) > 1

\* C10: merge(x, x), and a merge(a, b) repeated right after merge(a, b),
\* leave classes, hashcons, the worklist, next_id and every representative
\* as they were.
C10_MergeIdempotent ==
    ~raised =>
      /\ \A x \in Minted : Same(merge(G, x, x), G)
      /\ \A a \in Minted, b \in Minted :
           LET m == merge(G, a, b)
           IN  ~m.raised => Same(merge(m, a, b), m)

\* C10 witness: a merge has just unioned two classes, one of which has
\* recorded parents.
C10_Witness ==
    /\ last.op = "merge" /\ ~raised
    /\ worklist # {}
    /\ \E c \in DOMAIN classes : classes[c].parents # {}


\* Following parent links from x reaches an id that is its own parent in at
\* most n steps.
RECURSIVE ReachesRoot(_, _, _)
ReachesRoot(p, x, n) ==
    IF x \notin DOMAIN p THEN FALSE
    ELSE IF p[x] = x THEN TRUE
    ELSE IF n = 0 THEN FALSE
    ELSE ReachesRoot(p, p[x], n - 1)

Acyclic(p) == \A x \in DOMAIN p : ReachesRoot(p, x, Cardinality(DOMAIN p))

\* C11: disjoint-set validity.  In every reachable state the parent map is
\* acyclic and stays so under find and union of any ids; find(find(x)) is
\* find(x); and the path compression of find(x) changes no representative.
C11_DisjointSetValid ==
    /\ Acyclic(parent)
    /\ \A x \in Ids :
         LET f == find(parent, x)
         IN  /\ Acyclic(f.parent)
             /\ find(f.parent, f.root).root = f.root
             /\ f.root = Rep(parent, x)
             /\ \A y \in Ids : Rep(f.parent, y) = Rep(parent, y)
    /\ \A x \in Ids, y \in Ids : Acyclic(union(parent, x, y))

\* C11 witness: the parent map has a chain of two links, which find compresses.
C11_Witness ==
    \E x \in DOMAIN parent :
      /\ parent[x] # x /\ parent[parent[x]] # parent[x]
      /\ find(parent, x).parent # parent

\* C12: get_eclass of an id that was never minted returns None and leaves
\* classes, hashcons, the parent map, the worklist and next_id unchanged.
C12_GetUnknown ==
    \A id \in Ids \ Minted :
      LET r == get_eclass(G, id)
      IN  r.ret = <<>> /\ r.g = G

\* C12 witness: get_eclass returned None on a graph that has classes.
C12_Witness ==
    last.op = "get_eclass" /\ ~last.hit /\ classes # <<>>

\* C13: find of an id that was never minted (one the parent map does not
\* hold) reports not-found, returning no id, and does not register the id.
C13_StrictFind ==
    (last.op = "find" /\ ~last.hit) =>
      (last.ret = None /\ DOMAIN parent \subseteq Minted)

\* C14: union policy.  union(x, y), and merge(a, b), of ids with different
\* roots make the former root of the first argument the representative of
\* every id of the two sets, leave every other representative unchanged, and
\* merge stores the merged class under that former root.
C14_UnionPolicy ==
    ~raised =>
      \A a \in Minted, b \in Minted :
        LET ra == Rep(parent, a)
            rb == Rep(parent, b)
            u == union(parent, a, b)
            m == merge(G, a, b)
            After(z) == IF Rep(parent, z) \in {ra, rb} THEN ra ELSE Rep(parent, z)
        IN  ra # rb =>
              /\ \A z \in Minted : Rep(u, z) = After(z) /\ Rep(m.parent, z) = After(z)
              /\ m.classes[ra].id = ra
              /\ m.classes[ra].nodes = classes[ra].nodes \cup classes[rb].nodes
              /\ \A c \in DOMAIN classes \ {ra} : m.classes[c] = classes[c]

\* C14 witness: a merge has put an id that was a root under the root of its
\* first argument, and a third id is in neither set.
C14_Witness ==
    /\ last.op = "merge" /\ ~raised
    /\ \E x \in Minted, z \in Minted :
         /\ parent[x] # x /\ parent[x] \in worklist
         /\ Rep(parent, z) # Rep(parent, x)

\* C15: two-phase contract.  A merge that is not a no-op leaves hashcons,
\* next_id and every class entry but the one at the merged id unchanged and
\* adds the merged id, and nothing else, to the worklist; add_node and merge
\* remove nothing from the worklist.
C15_MergeSchedules ==
    ~raised =>
      /\ \A a \in Minted, b \in Minted :
           LET m == merge(G, a, b)
               merged_id == Rep(m.parent, a)
           IN  /\ worklist \subseteq m.worklist
               /\ Rep(parent, a) # Rep(parent, b) =>
                    /\ m.hashcons = hashcons
                    /\ m.next_id = next_id
                    /\ DOMAIN m.classes = DOMAIN classes
                    /\ \A c \in DOMAIN classes \ {merged_id} : m.classes[c] = classes[c]
                    /\ m.worklist = worklist \cup {merged_id}
      /\ \A enode \in NodesOver(Minted) : add_node(G, enode).g.worklist = worklist

\* C15 witness: two merges were made without a rebuild between them, and the
\* worklist holds the ids of both.
C15_Witness ==
    /\ last.op = "merge" /\ ~raised
    /\ Cardinality(worklist) > 1

\* C16: repair(c) of a canonical class c with recorded parents completes,
\* (1) leaves each parent's canonicalized node in hashcons mapped to the
\* representative of the class it was mapped to, (2) gives two parents that
\* canonicalize to the same node the same representative, and (3) leaves
\* classes[c].parents the set of the canonicalized recorded parents.
C16_Repair ==
    ~raised =>
      \A c \in CanonicalIds(G) :
        classes[c].parents # {} =>
          \A o \in repairOutcomes(G, c) :
            /\ ~o.raised
            /\ \A n \in classes[c].parents :
                 /\ n \in DOMAIN hashcons
                 /\ Canon(o.parent, n) \in DOMAIN o.hashcons
                 /\ o.hashcons[Canon(o.parent, n)] = Rep(o.parent, hashcons[n])
            /\ \A n1 \in classes[c].parents, n2 \in classes[c].parents :
                 (Canon(parent, n1) = Canon(parent, n2)
                    /\ n1 \in DOMAIN hashcons /\ n2 \in DOMAIN hashcons)
                 => Rep(o.parent, hashcons[n1]) = Rep(o.parent, hashcons[n2])
            /\ o.classes[c].parents = {Canon(parent, n) : n \in classes[c].parents}

\* C17: identifier lifecycle.  Over every step next_id does not decrease,
\* classes loses no key, and an id add_node mints is none of the ids minted
\* before.
C17_IdLifecycle ==
    [][ /\ next_id' >= next_id
        /\ DOMAIN classes \subseteq DOMAIN classes'
        /\ (last'.op = "add_node" /\ ~last'.hit) =>
             /\ last'.ret \notin DOMAIN classes
             /\ last'.ret \notin DOMAIN created ]_vars

\* C17 witness: add_node minted a class while an id superseded by a merge is
\* still a key of classes.
C17_Witness ==
    /\ last.op = "add_node" /\ ~last.hit /\ ~raised
    /\ last.ret = next_id
    /\ \E x \in DOMAIN classes : Rep(parent, x) # x

\* C18: no node is lost.  For every minted id i, find(i) is a key of classes
\* and the node class i was created with is a node of classes[find(i)].
C18_NoNodeLost ==
    \A i \in Minted :
      /\ i \in DOMAIN created
      /\ Rep(parent, i) \in DOMAIN classes
      /\ created[i] \in classes[Rep(parent, i)].nodes

\* C18 witness: a class made by merges holds the nodes three classes were
\* created with.
C18_Witness ==
    \E c \in CanonicalIds(G) :
      Cardinality({i \in Minted : Rep(parent, i) = c}) > 2
        /\ Cardinality(classes[c].nodes) > 2

\* C19: an add_node with a child id that was never minted, and a merge with
\* an id that was never minted, fail and leave next_id, classes, hashcons,
\* the worklist and the parent map as they were.
C19_UnchangedOnError ==
    [][ (AddNodeUnknown \/ MergeUnknown) =>
          (raised' /\ UNCHANGED <<parent, classes, hashcons, next_id, worklist>>) ]_vars

====
